---- MODULE Spec2Model ----
(***************************************************************************)
(* A model of the initialisation core of flatland-2019: the malfunction    *)
(* generators (flatland/envs/malfunction_generators.py), the schedule      *)
(* generators (flatland/envs/schedule_generators.py), the transition map   *)
(* operations they and the tests rely on, and the rail cell lookup of the  *)
(* renderer (flatland/utils/graphics_pil.py).                              *)
(*                                                                         *)
(* Real numbers are fixed-point integers in units of 1/Scale.  Python      *)
(* exceptions are modelled as a "raised" outcome of the operation.         *)
(***************************************************************************)
EXTENDS Integers, Sequences, FiniteSets, TLC

VARIABLES
    \* ---- malfunction generators ----
    mgen,                        \* which closure exists: "unbuilt", "params", "file", "none", "raised"
    snapshot,                    \* the decoded snapshot handed to malfunction_from_file
    mean_malfunction_rate,       \* closure variable
    min_number_of_steps_broken,  \* closure variable
    max_number_of_steps_broken,  \* closure variable
    process_data,                \* the MalfunctionProcessData returned beside the generator
    malfunction,                 \* agent.malfunction_data['malfunction'], owned by the caller
    mcall,                       \* the last generator call: its arguments and its outcome
    \* ---- schedule generators ----
    sgen,                \* the generator called: "complex", "sparse", "random", "file"
    spc,                 \* its position: "call", "loop", "sparse_*", "returned", "raised"
    rail,                \* the GridTransitionMap argument
    num_agents,          \* the requested agent count
    hints,               \* the hints argument
    speed_ratio_map,     \* the closure's speed_ratio_map (NoMap for None)
    file_agents,         \* data[b"agents_static"] of the file schedule_from_file reads
    agents_position,     \* list of start cells
    agents_target,       \* list of target cells
    agents_direction,    \* list of start directions
    agents_speed,        \* list of speeds (set on return)
    valid_positions,     \* random: the cells with a nonzero mask, row-major
    agents_position_idx, \* random: indices into valid_positions
    agents_target_idx,   \* random: indices into valid_positions
    update_agents,       \* random: 1 marks the agent to re-sample
    re_generate,         \* random: the loop flag
    cnt,                 \* random: loop iterations so far
    agent_idx,           \* sparse: the agent being placed
    tries,               \* sparse: redraw counter of the running while loop
    draw,                \* sparse: the station cell currently drawn (target or start)
    warned,              \* the warnings emitted so far
    sraised,             \* the exception that ended the call, "" if none
    global_random_used,  \* a function of the module-level np.random has been called
    \* ---- rotate_transition ----
    rot_mask,            \* the mask the rotations started from
    rot_value,           \* the result of the rotations so far
    rot_total,           \* the degrees rotated so far
    \* ---- check_path_exists ----
    path_pc,             \* "idle", "call" or "returned"
    path_rail,           \* the transition map queried
    path_start,          \* start_position
    path_direction,      \* start_direction
    path_target,         \* target_position
    path_result,         \* the boolean returned
    \* ---- GridTransitionMap under test ----
    tm_pc,               \* "idle", "fresh", "set" or "cleared"
    tm_dirs,             \* directions of the transitions object: 4 (grid4) or 8 (grid8)
    tm_grid,             \* the grid of cell masks, each a sequence of 16-bit words
    tm_pos,              \* the cell the test addresses
    tm_dirIn,            \* the entry direction the test addresses
    tm_dirOut,           \* the exit direction the test sets and clears
    \* ---- PILSVG.setRailAt ----
    g_layers,            \* self.layers: for each layer the image pasted on each cell
    g_printed,           \* the "Illegal rail:" lines printed so far
    g_call,              \* the arguments and the outcome of the last setRailAt call
    g_calls,             \* the number of setRailAt calls so far
    \* ---- PILSVG.loadAgentPNGs and setAgentAt ----
    z_pc,                \* "idle", "init" (before loadAgentPNGs), "ready" or "raised"
    dPilZug,             \* the keys of self.dPilZug
    z_call               \* the arguments and the outcome of the last setAgentAt call

mvars == <<mgen, snapshot, mean_malfunction_rate, min_number_of_steps_broken,
           max_number_of_steps_broken, process_data, malfunction, mcall>>

svars == <<sgen, spc, rail, num_agents, hints, speed_ratio_map, file_agents,
           agents_position, agents_target, agents_direction, agents_speed,
           valid_positions, agents_position_idx, agents_target_idx, update_agents,
           re_generate, cnt, agent_idx, tries, draw, warned, sraised,
           global_random_used>>

rvars == <<rot_mask, rot_value, rot_total>>

tvars == <<tm_pc, tm_dirs, tm_grid, tm_pos, tm_dirIn, tm_dirOut>>

gvars == <<g_layers, g_printed, g_call, g_calls>>

zvars == <<z_pc, dPilZug, z_call>>

pvars == <<path_pc, path_rail, path_start, path_direction, path_target, path_result>>

\* The variables of the components other than the two generator modules.
ovars == <<rvars, pvars, tvars, gvars, zvars>>

\* What the actions on a rotated mask leave alone.
rframe == <<mvars, svars, pvars, tvars, gvars, zvars>>

\* What the path query leaves alone.
pframe == <<mvars, svars, rvars, tvars, gvars, zvars>>

\* What the transition map test leaves alone.
tframe == <<mvars, svars, rvars, pvars, gvars, zvars>>

\* What setRailAt leaves alone.
gframe == <<mvars, svars, rvars, pvars, tvars, zvars>>

\* What loadAgentPNGs and setAgentAt leave alone, the layers apart.
zframe == <<mvars, svars, rvars, pvars, tvars>>

vars == <<mvars, svars, ovars>>

(***************************************************************************)
(* Bounds of the model.                                                    *)
(***************************************************************************)
Scale == 1000000      \* fixed-point resolution of probabilities and random draws
ExpTerms == 10        \* terms of the series that evaluates np.exp
MaxRate == 4          \* malfunction rates are the integers -1 .. MaxRate
MaxDuration == 5      \* min_duration and max_duration range over 0 .. MaxDuration
MaxMalfunction == 2   \* the agent's counter ranges over -1 .. MaxMalfunction
RandSteps == 4        \* np_random.rand() is drawn from a grid of RandSteps + 1 values

Rates == (0 - 1)..MaxRate
Durations == 0..MaxDuration
Counters == (0 - 1)..MaxMalfunction
\* np_random.rand() returns a float in [0, 1)
RandVals == {(k * Scale) \div RandSteps : k \in 0..(RandSteps - 1)} \cup {Scale - 1}

(***************************************************************************)
(* np.exp(-(1 / rate)) for an integer rate >= 1, as the alternating series *)
(* sum_k (-1/rate)^k / k!, each term truncated to 1/Scale.                 *)
(***************************************************************************)
RECURSIVE ExpTerm(_, _)
ExpTerm(rate, k) == IF k = 0 THEN Scale ELSE ExpTerm(rate, k - 1) \div (rate * k)

RECURSIVE ExpSum(_, _)
ExpSum(rate, k) ==
    IF k = 0 THEN ExpTerm(rate, 0)
    ELSE ExpSum(rate, k - 1) + (IF k % 2 = 0 THEN ExpTerm(rate, k) ELSE 0 - ExpTerm(rate, k))

np_exp_neg_inv(rate) == ExpSum(rate, ExpTerms)

\* A slip that guards only negative rates and lets rate 0 break with certainty.
MalfunctionProbNoZeroGuard(rate) ==
    IF rate < 0 THEN 0 ELSE IF rate = 0 THEN Scale ELSE Scale - np_exp_neg_inv(rate)

\* A slip that returns exp(-1/rate) itself, without the complement "1 -".
MalfunctionProbNoComplement(rate) ==
    IF rate <= 0 THEN 0 ELSE np_exp_neg_inv(rate)

\* _malfunction_prob: 0 for rate <= 0, else 1 - exp(-1/rate)
MalfunctionProb(rate) ==
    IF rate <= 0 THEN 0 ELSE Scale - np_exp_neg_inv(rate)

(***************************************************************************)
(* Outcomes of an operation: a returned value or a raised exception.       *)
(***************************************************************************)
Returned(v) == [raised |-> "", value |-> v]
Raised(e) == [raised |-> e, value |-> 0]

\* np_random.randint(low, high): an integer in [low, high), ValueError when low >= high
randint(low, high) ==
    IF low >= high THEN {Raised("ValueError")} ELSE {Returned(v) : v \in low..(high - 1)}

\* A slip that forgets the "+ 1" on the upper limit and on the result.
BrokenStepsNoPlusOne(lo, hi) ==
    {IF r.raised = "" THEN Returned(r.value) ELSE r : r \in randint(lo, hi + 1)}

\* np_random.randint(min_number_of_steps_broken, max_number_of_steps_broken + 1) + 1
BrokenSteps(lo, hi) ==
    {IF r.raised = "" THEN Returned(r.value + 1) ELSE r : r \in randint(lo, hi + 1)}

\* A slip in the eligibility test: "<= 1" instead of "< 1".
EligibleOffByOne(m) == m <= 1

\* agent.malfunction_data['malfunction'] < 1
Eligible(m) == m < 1

\* The outcomes of generator(agent, np_random) of malfunction_from_params and of
\* malfunction_from_file, for counter m and rand() draw u.
GeneratorOutcomes(m, u, rate, lo, hi) ==
    IF Eligible(m) /\ u < MalfunctionProb(rate)
    THEN BrokenSteps(lo, hi)
    ELSE {Returned(0)}

NoCall == [kind |-> "none", malfunction |-> 0, u |-> 0, raised |-> "", num_broken_steps |-> 0]

NoData == <<0, 0, 0>>

NoRail == [height |-> 0, width |-> 0, grid |-> <<>>]
NoHints == [start_goal |-> <<>>, start_dir |-> <<>>, train_stations |-> <<>>,
            agent_start_targets_nodes |-> <<>>, num_agents |-> 0]
NoMap == <<>>
NoCell == <<0 - 1, 0 - 1>>

\* No mask is being rotated.
RotationIdle ==
    /\ rot_mask = 0
    /\ rot_value = 0
    /\ rot_total = 0

\* No path query is running.
PathIdle ==
    /\ path_pc = "idle"
    /\ path_rail = [height |-> 0, width |-> 0, grid |-> <<>>]
    /\ path_start = <<0, 0>>
    /\ path_direction = 0
    /\ path_target = <<0, 0>>
    /\ path_result = FALSE

\* No transition map is under test.
MapIdle ==
    /\ tm_pc = "idle"
    /\ tm_dirs = 0
    /\ tm_grid = <<>>
    /\ tm_pos = <<0, 0>>
    /\ tm_dirIn = 0
    /\ tm_dirOut = 0

\* No renderer exists.
GraphicsIdle ==
    /\ g_layers = <<>>
    /\ g_printed = <<>>
    /\ g_call = <<>>
    /\ g_calls = 0

\* No agent image has been loaded or drawn.
AgentIdle ==
    /\ z_pc = "idle"
    /\ dPilZug = {}
    /\ z_call = <<>>

\* The components other than the two generator modules are not in use.
OthersIdle == RotationIdle /\ PathIdle /\ MapIdle /\ GraphicsIdle /\ AgentIdle

\* The schedule generators' locals before any assignment.
ScheduleLocalsUnset ==
    /\ agents_position = <<>>
    /\ agents_target = <<>>
    /\ agents_direction = <<>>
    /\ agents_speed = <<>>
    /\ valid_positions = <<>>
    /\ agents_position_idx = <<>>
    /\ agents_target_idx = <<>>
    /\ update_agents = <<>>
    /\ re_generate = FALSE
    /\ cnt = 0
    /\ agent_idx = 0
    /\ tries = 0
    /\ draw = NoCell
    /\ warned = {}
    /\ sraised = ""
    /\ global_random_used = FALSE

\* No schedule generator is in use.
ScheduleIdle ==
    /\ sgen = "idle"
    /\ spc = "idle"
    /\ rail = NoRail
    /\ num_agents = 0
    /\ hints = NoHints
    /\ speed_ratio_map = NoMap
    /\ file_agents = <<>>
    /\ ScheduleLocalsUnset

(***************************************************************************)
(* Initial state: nothing has been constructed yet.                        *)
(***************************************************************************)
InitMalfunction ==
    /\ mgen = "unbuilt"
    /\ snapshot = [has_malfunction |-> FALSE, malfunction |-> NoData]
    /\ mean_malfunction_rate = 0
    /\ min_number_of_steps_broken = 0
    /\ max_number_of_steps_broken = 0
    /\ process_data = NoData
    /\ malfunction \in Counters
    /\ mcall = NoCall
    /\ ScheduleIdle
    /\ OthersIdle

\* malfunction_from_params(parameters)
malfunction_from_params ==
    /\ mgen = "unbuilt"
    /\ \E rate \in Rates, lo \in Durations, hi \in Durations :
        /\ mean_malfunction_rate' = rate
        /\ min_number_of_steps_broken' = lo
        /\ max_number_of_steps_broken' = hi
        /\ process_data' = <<rate, lo, hi>>
    /\ mgen' = "params"
    /\ UNCHANGED <<snapshot, malfunction, mcall>>
    /\ UNCHANGED svars
    /\ UNCHANGED ovars

\* The snapshots malfunction_from_file may decode: with or without a "malfunction" entry.
Snapshots ==
    {[has_malfunction |-> FALSE, malfunction |-> NoData]}
    \cup {[has_malfunction |-> TRUE, malfunction |-> <<rate, lo, hi>>] :
            rate \in Rates, lo \in Durations, hi \in Durations}

\* malfunction_from_file(filename): line 45 reads data['malfunction'] before the
\* "malfunction" in data test, so a snapshot without the key raises KeyError.
malfunction_from_file ==
    /\ mgen = "unbuilt"
    /\ \E data \in Snapshots :
        /\ snapshot' = data
        /\ IF ~data.has_malfunction
           THEN /\ mgen' = "raised"
                /\ UNCHANGED <<mean_malfunction_rate, min_number_of_steps_broken,
                               max_number_of_steps_broken, process_data>>
           ELSE /\ mgen' = "file"
                /\ mean_malfunction_rate' = data.malfunction[1]
                /\ min_number_of_steps_broken' = data.malfunction[2]
                /\ max_number_of_steps_broken' = data.malfunction[3]
                /\ process_data' = data.malfunction
    /\ UNCHANGED <<malfunction, mcall>>
    /\ UNCHANGED svars
    /\ UNCHANGED ovars

\* no_malfunction_generator()
no_malfunction_generator ==
    /\ mgen = "unbuilt"
    /\ mgen' = "none"
    /\ mean_malfunction_rate' = 0
    /\ min_number_of_steps_broken' = 0
    /\ max_number_of_steps_broken' = 0
    /\ process_data' = <<0, 0, 0>>
    /\ UNCHANGED <<snapshot, malfunction, mcall>>
    /\ UNCHANGED svars
    /\ UNCHANGED ovars

\* A generator that keeps the drawn duration in the agent's counter.
generatorWritesCounter ==
    /\ mgen \in {"params", "file"}
    /\ \E u \in RandVals :
        \E r \in GeneratorOutcomes(malfunction, u, mean_malfunction_rate,
                                   min_number_of_steps_broken, max_number_of_steps_broken) :
            /\ mcall' = [kind |-> mgen, malfunction |-> malfunction, u |-> u,
                         raised |-> r.raised, num_broken_steps |-> r.value]
            /\ malfunction' = IF r.value > 0 THEN r.value ELSE malfunction
    /\ UNCHANGED <<mgen, snapshot, mean_malfunction_rate, min_number_of_steps_broken,
                   max_number_of_steps_broken, process_data>>
    /\ UNCHANGED svars
    /\ UNCHANGED ovars

\* generator(agent, np_random) of malfunction_from_params / malfunction_from_file
generator ==
    /\ mgen \in {"params", "file"}
    /\ \E u \in RandVals :
        \E r \in GeneratorOutcomes(malfunction, u, mean_malfunction_rate,
                                   min_number_of_steps_broken, max_number_of_steps_broken) :
            mcall' = [kind |-> mgen, malfunction |-> malfunction, u |-> u,
                      raised |-> r.raised, num_broken_steps |-> r.value]
    /\ UNCHANGED <<mgen, snapshot, mean_malfunction_rate, min_number_of_steps_broken,
                   max_number_of_steps_broken, process_data, malfunction>>
    /\ UNCHANGED svars
    /\ UNCHANGED ovars

\* generator(agent, np_random) of no_malfunction_generator
no_generator ==
    /\ mgen = "none"
    /\ \E u \in RandVals :
        mcall' = [kind |-> "none_gen", malfunction |-> malfunction, u |-> u,
                  raised |-> "", num_broken_steps |-> 0]
    /\ UNCHANGED <<mgen, snapshot, mean_malfunction_rate, min_number_of_steps_broken,
                   max_number_of_steps_broken, process_data, malfunction>>
    /\ UNCHANGED svars
    /\ UNCHANGED ovars

\* The environment, which owns the counter, writes it between two queries.
env_set_malfunction ==
    /\ mgen \in {"params", "file", "none"}
    /\ \E m \in Counters : malfunction' = m
    /\ malfunction' # malfunction
    /\ UNCHANGED <<mgen, snapshot, mean_malfunction_rate, min_number_of_steps_broken,
                   max_number_of_steps_broken, process_data, mcall>>
    /\ UNCHANGED svars
    /\ UNCHANGED ovars

NextMalfunction ==
    \/ malfunction_from_params
    \/ malfunction_from_file
    \/ no_malfunction_generator
    \/ generator
    \/ no_generator
    \/ env_set_malfunction

SpecMalfunction == InitMalfunction /\ [][NextMalfunction]_vars

(***************************************************************************)
(* Claims about the malfunction generators.                                *)
(***************************************************************************)
IsGeneratorCall == mcall.kind \in {"params", "file"}

Triggered ==
    /\ IsGeneratorCall
    /\ mcall.malfunction < 1
    /\ mcall.u < MalfunctionProb(mean_malfunction_rate)

\* C2: malfunction_from_file on a snapshot without a "malfunction" entry does not
\* fail; it yields a generator together with MalfunctionProcessData(0, 0, 0), and
\* that generator never starts a malfunction.
C2_MissingKeyDefaults ==
    (mgen \in {"file", "raised"} /\ ~snapshot.has_malfunction) =>
        /\ mgen = "file"
        /\ process_data = <<0, 0, 0>>
        /\ mcall.num_broken_steps = 0

\* C3: a call with the agent's counter at 1 or more returns 0 broken steps, whatever
\* the rate, the duration range and the draw; a nonzero result implies counter < 1.
C3_BrokenAgentNotRebroken ==
    IsGeneratorCall =>
        /\ (mcall.malfunction >= 1 => (mcall.raised = "" /\ mcall.num_broken_steps = 0))
        /\ (mcall.num_broken_steps # 0 => mcall.malfunction < 1)

\* C3 witness: a call on a broken agent whose draw would otherwise have triggered.
C3_Witness ==
    /\ IsGeneratorCall
    /\ mcall.malfunction >= 1
    /\ mcall.u < MalfunctionProb(mean_malfunction_rate)
    /\ mcall.num_broken_steps = 0

\* C4: with rate <= 0, and for the none variant, no call ever returns a nonzero
\* number of broken steps, whatever the counter and the draw.
C4_DisabledNeverBreaks ==
    ((IsGeneratorCall /\ mean_malfunction_rate <= 0) \/ mcall.kind = "none_gen") =>
        (mcall.raised = "" /\ mcall.num_broken_steps = 0)

\* C4 witness: an eligible agent, the smallest possible draw, rate 0, and no breakdown.
C4_Witness ==
    /\ IsGeneratorCall
    /\ mean_malfunction_rate = 0
    /\ mcall.malfunction < 1
    /\ mcall.u = 0
    /\ mcall.num_broken_steps = 0

\* C5: a triggered malfunction lasts d steps with min_duration + 1 <= d <=
\* max_duration + 1, d is never zero, and with min_duration = max_duration = 5 it
\* lasts exactly 6 steps.
C5_DurationRange ==
    (Triggered /\ mcall.raised = "") =>
        /\ min_number_of_steps_broken + 1 <= mcall.num_broken_steps
        /\ mcall.num_broken_steps <= max_number_of_steps_broken + 1
        /\ mcall.num_broken_steps # 0
        /\ ((min_number_of_steps_broken = 5 /\ max_number_of_steps_broken = 5)
                => mcall.num_broken_steps = 6)

\* C5 witness: a triggered malfunction with min_duration = max_duration = 5.
C5_Witness ==
    /\ Triggered
    /\ mcall.raised = ""
    /\ min_number_of_steps_broken = 5
    /\ max_number_of_steps_broken = 5
    /\ mcall.num_broken_steps = 6

\* C6 as stated: the probability is strictly increasing in the rate (for positive
\* rates) and is 0 at rate 0.
C6_ProbIncreasing ==
    IsGeneratorCall =>
        /\ MalfunctionProb(0) = 0
        /\ \A r2 \in Rates :
            (0 < mean_malfunction_rate /\ mean_malfunction_rate < r2) =>
                MalfunctionProb(mean_malfunction_rate) < MalfunctionProb(r2)

\* C6 amended: the probability is strictly decreasing in the rate (for positive
\* rates) and is 0 at rate 0.
C6_ProbDecreasing ==
    IsGeneratorCall =>
        /\ MalfunctionProb(0) = 0
        /\ \A r2 \in Rates :
            (0 < mean_malfunction_rate /\ mean_malfunction_rate < r2) =>
                MalfunctionProb(mean_malfunction_rate) > MalfunctionProb(r2)

\* C6 witness: a draw that triggers a malfunction at rate 1 and that would not have
\* triggered one at rate 2.
C6_Witness ==
    /\ IsGeneratorCall
    /\ mean_malfunction_rate = 1
    /\ mcall.malfunction < 1
    /\ mcall.u < MalfunctionProb(1)
    /\ mcall.u >= MalfunctionProb(2)
    /\ mcall.num_broken_steps > 0

(***************************************************************************)
(* The transition map the schedule generators read.                        *)
(***************************************************************************)
MaxAgents == 3        \* the requested agent count ranges over 0 .. MaxAgents

NORTH == 0
EAST == 1
SOUTH == 2
WEST == 3
Directions == 0..3

Range(f) == {f[i] : i \in DOMAIN f}

RECURSIVE Pow2(_)
Pow2(n) == IF n = 0 THEN 1 ELSE 2 * Pow2(n - 1)

\* The mask with the single transition dirIn -> dirOut: character 4 * dirIn + dirOut
\* of the 16-character binary string, most significant first.
Trans(dirIn, dirOut) == Pow2(15 - (4 * dirIn + dirOut))

\* rail.get_full_transitions(r, c); a cell outside the grid has no transitions
get_full_transitions(map, pos) == IF pos \in DOMAIN map.grid THEN map.grid[pos] ELSE 0

\* rail.get_transitions(r, c, dirIn): the four bits indexed by dirOut
get_transitions(map, pos, dirIn) ==
    [dirOut \in Directions |->
        (get_full_transitions(map, pos) \div Trans(dirIn, dirOut)) % 2]

\* get_new_position(position, movement): the neighbouring cell; rows grow downward
get_new_position(pos, movement) ==
    IF movement = NORTH THEN <<pos[1] - 1, pos[2]>>
    ELSE IF movement = EAST THEN <<pos[1], pos[2] + 1>>
    ELSE IF movement = SOUTH THEN <<pos[1] + 1, pos[2]>>
    ELSE <<pos[1], pos[2] - 1>>

\* The (position, direction) nodes one legal transition away from a node.
Successors(map, node) ==
    {<<get_new_position(node[1], out), out>> :
        out \in {o \in Directions : get_transitions(map, node[1], node[2])[o] = 1}}

\* The nodes reachable from the nodes of `frontier`, `seen` being those already visited.
RECURSIVE Reachable(_, _, _)
Reachable(map, frontier, seen) ==
    IF frontier = {} THEN seen
    ELSE LET next == (UNION {Successors(map, nd) : nd \in frontier}) \ (seen \cup frontier)
         IN  Reachable(map, next, seen \cup frontier)

\* A slip that starts the search in every direction at once.
check_path_existsAnyDirection(map, start, direction, end) ==
    \E nd \in Reachable(map, {<<start, d>> : d \in Directions}, {}) : nd[1] = end

\* rail.check_path_exists(start, direction, end): some sequence of legal transitions
\* leads from (start, direction) to end in any orientation
check_path_exists(map, start, direction, end) ==
    \E nd \in Reachable(map, {<<start, direction>>}, {}) : nd[1] = end

Cells(h, w) == {<<r, c>> : r \in 0..(h - 1), c \in 0..(w - 1)}

\* A rail from the masks of its non-empty cells.
MakeRail(h, w, masks) ==
    [height |-> h, width |-> w,
     grid |-> [pos \in Cells(h, w) |-> IF pos \in DOMAIN masks THEN masks[pos] ELSE 0]]

DeadEndFacingWest == Trans(WEST, EAST)
DeadEndFacingEast == Trans(EAST, WEST)
DeadEndFacingNorth == Trans(NORTH, SOUTH)
Horizontal == Trans(EAST, EAST) + Trans(WEST, WEST)

\* 2 x 2, no rail at all.
RailEmpty == MakeRail(2, 2, <<>>)

\* 1 x 3: dead end, straight, dead end; every cell reaches every other.
RailLine ==
    MakeRail(1, 3, (<<0, 0>> :> DeadEndFacingWest) @@ (<<0, 1>> :> Horizontal)
                   @@ (<<0, 2>> :> DeadEndFacingEast))

\* 2 x 2: each row is a closed two-cell track; the rows are not connected.
RailTwoRows ==
    MakeRail(2, 2, (<<0, 0>> :> DeadEndFacingWest) @@ (<<0, 1>> :> DeadEndFacingEast)
                   @@ (<<1, 0>> :> DeadEndFacingWest) @@ (<<1, 1>> :> DeadEndFacingEast))

\* 2 x 2: two stubs in the top row, each leading into an empty cell below.
RailStubs ==
    MakeRail(2, 2, (<<0, 0>> :> DeadEndFacingNorth) @@ (<<0, 1>> :> DeadEndFacingNorth))

\* 2 x 2: a ring of four curves, passable in both senses.
RailRing ==
    MakeRail(2, 2,
        (<<0, 0>> :> (Trans(NORTH, EAST) + Trans(WEST, SOUTH)))
        @@ (<<0, 1>> :> (Trans(EAST, SOUTH) + Trans(NORTH, WEST)))
        @@ (<<1, 1>> :> (Trans(SOUTH, WEST) + Trans(EAST, NORTH)))
        @@ (<<1, 0>> :> (Trans(WEST, NORTH) + Trans(SOUTH, EAST))))

\* 2 x 2: a curve at (1,0) joining its south and east sides, a diamond crossing at
\* (1,1), and above the crossing a dead end at (0,1).
Curve == Trans(NORTH, EAST) + Trans(WEST, SOUTH)
Crossing == Trans(NORTH, NORTH) + Trans(SOUTH, SOUTH) + Trans(EAST, EAST) + Trans(WEST, WEST)
RailJunction ==
    MakeRail(2, 2, (<<1, 0>> :> Curve) @@ (<<1, 1>> :> Crossing)
                   @@ (<<0, 1>> :> DeadEndFacingNorth))

Rails == {RailEmpty, RailLine, RailTwoRows, RailStubs, RailRing, RailJunction}

(***************************************************************************)
(* Speeds.  A speed is a percentage: 100 is 1.0.                           *)
(***************************************************************************)
FullSpeed == 100
HalfSpeed == 50

\* {1.0: 0.5, 0.5: 0.5} as a list of (speed, ratio) items
TwoSpeeds == <<[speed |-> FullSpeed, ratio |-> 50], [speed |-> HalfSpeed, ratio |-> 50]>>

SpeedMaps == {NoMap, TwoSpeeds}

\* The results of speed_initialization_helper(nb_agents, speed_ratio_map): 1.0 for
\* everyone without a map, else one draw per agent among the classes of the map.
speed_initialization_helper(nb_agents, map) ==
    IF map = NoMap
    THEN {[i \in 1..nb_agents |-> FullSpeed]}
    ELSE [1..nb_agents -> {map[k].speed : k \in {j \in DOMAIN map : map[j].ratio > 0}}]

(***************************************************************************)
(* random_schedule_generator                                               *)
(***************************************************************************)
MaxIterations == 100

WarnTooFewPositions == "schedule_generators: len(valid_positions) < num_agents"

\* The cells of the grid in row-major order.
RowMajor(map) ==
    [k \in 1..(map.height * map.width) |-> <<(k - 1) \div map.width, (k - 1) % map.width>>]

\* valid_positions: the cells with get_full_transitions(r, c) > 0, row-major
ValidPositions(map) ==
    LET HasRail(pos) == get_full_transitions(map, pos) > 0
    IN  SelectSeq(RowMajor(map), HasRail)

\* np.random.choice(size, n, replace=False): n distinct indices
ChoiceNoReplace(size, n) ==
    {f \in [1..n -> 1..size] : \A i, j \in 1..n : i # j => f[i] # f[j]}

Zeros(n) == [i \in 1..n |-> 0]

\* valid_movements of lines 173-181: the (direction, move_index) pairs with the bit set
ValidMovements(map, pos) ==
    {m \in Directions \X Directions : get_transitions(map, pos, m[1])[m[2]] = 1}

\* A slip that tests the path for every direction and move, legal or not.
ValidStartingDirectionsAnyMove(map, pos, target) ==
    {d \in Directions :
        \E out \in Directions : check_path_exists(map, get_new_position(pos, out), d, target)}

\* valid_starting_directions of lines 183-188: the directions m[0] of the valid
\* movements m for which check_path_exists(new_position, m[0], target) holds
ValidStartingDirections(map, pos, target) ==
    {m[1] : m \in {mv \in ValidMovements(map, pos) :
                     check_path_exists(map, get_new_position(pos, mv[2]), mv[1], target)}}

\* A slip that excludes only the re-sampled agent's own old index.
FreshIndicesOwnOnly(size, idx, i) == (1..size) \ {idx[i]}

\* np.setdiff1d(np.arange(len(valid_positions)), idx): the indices no agent holds
FreshIndices(size, idx, i) == (1..size) \ Range(idx)

\* A slip that goes on re-sampling every agent after the marked one.
RECURSIVE ResampleFromMarked(_, _, _, _, _)
ResampleFromMarked(i, size, upd, pidx, tidx) ==
    IF i > Len(upd) THEN {[raised |-> "", pidx |-> pidx, tidx |-> tidx]}
    ELSE IF upd[i] # 1 THEN ResampleFromMarked(i + 1, size, upd, pidx, tidx)
    ELSE IF FreshIndices(size, pidx, i) = {} \/ FreshIndices(size, tidx, i) = {}
         THEN {[raised |-> "ValueError", pidx |-> pidx, tidx |-> tidx]}
    ELSE LET next == IF i < Len(upd) THEN [upd EXCEPT ![i + 1] = 1] ELSE upd
         IN  UNION {ResampleFromMarked(i + 1, size, next, [pidx EXCEPT ![i] = a],
                                       [tidx EXCEPT ![i] = b]) :
                        a \in FreshIndices(size, pidx, i), b \in FreshIndices(size, tidx, i)}

\* Lines 158-165: the agents marked in update_agents, in index order, get a fresh
\* position index and a fresh target index; np.random.choice of an empty array raises.
RECURSIVE Resample(_, _, _, _, _)
Resample(i, size, upd, pidx, tidx) ==
    IF i > Len(upd) THEN {[raised |-> "", pidx |-> pidx, tidx |-> tidx]}
    ELSE IF upd[i] # 1 THEN Resample(i + 1, size, upd, pidx, tidx)
    ELSE IF FreshIndices(size, pidx, i) = {}
         THEN {[raised |-> "ValueError", pidx |-> pidx, tidx |-> tidx]}
    ELSE UNION {
            LET p2 == [pidx EXCEPT ![i] = a]
            IN  IF FreshIndices(size, tidx, i) = {}
                THEN {[raised |-> "ValueError", pidx |-> p2, tidx |-> tidx]}
                ELSE UNION {Resample(i + 1, size, upd, p2, [tidx EXCEPT ![i] = b]) :
                                b \in FreshIndices(size, tidx, i)}
            : a \in FreshIndices(size, pidx, i)}

\* Lines 170-198: the feasibility pass from agent i on, `dirs` being agents_direction
\* so far: each agent gets one of its valid starting directions; the first agent
\* without any is marked (k) and ends the pass, its direction and the later ones
\* staying 0.  k = Len(pos) + 1 when no agent is marked.
RECURSIVE FeasibilityPass(_, _, _, _, _)
FeasibilityPass(map, pos, tgt, i, dirs) ==
    IF i > Len(pos) THEN {[dirs |-> dirs, k |-> i]}
    ELSE LET vsd == ValidStartingDirections(map, pos[i], tgt[i])
         IN  IF vsd = {}
             THEN {[dirs |-> dirs \o [j \in 1..(Len(pos) - i + 1) |-> 0], k |-> i]}
             ELSE UNION {FeasibilityPass(map, pos, tgt, i + 1, Append(dirs, d)) : d \in vsd}

MalfunctionIdle ==
    /\ mgen = "unbuilt"
    /\ snapshot = [has_malfunction |-> FALSE, malfunction |-> NoData]
    /\ mean_malfunction_rate = 0
    /\ min_number_of_steps_broken = 0
    /\ max_number_of_steps_broken = 0
    /\ process_data = NoData
    /\ malfunction = 0
    /\ mcall = NoCall

\* A call generator(rail, num_agents, hints) of random_schedule_generator is about to run.
InitRandom ==
    /\ sgen = "random"
    /\ spc = "call"
    /\ rail \in Rails
    /\ num_agents \in 0..MaxAgents
    /\ hints = NoHints
    /\ speed_ratio_map \in SpeedMaps
    /\ file_agents = <<>>
    /\ ScheduleLocalsUnset

\* Lines 135-151: enumerate the valid cells, give up with empty lists when there are
\* too few, else sample the positions and the targets.
random_sample ==
    /\ sgen = "random"
    /\ spc = "call"
    /\ LET vp == ValidPositions(rail)
       IN  /\ valid_positions' = vp
           /\ IF Len(vp) = 0
              THEN /\ spc' = "returned"
                   /\ UNCHANGED <<agents_position_idx, agents_target_idx, agents_position,
                                  agents_target, update_agents, re_generate, warned>>
              ELSE IF Len(vp) < num_agents
              THEN /\ spc' = "returned"
                   /\ warned' = warned \cup {WarnTooFewPositions}
                   /\ UNCHANGED <<agents_position_idx, agents_target_idx, agents_position,
                                  agents_target, update_agents, re_generate>>
              ELSE /\ spc' = "loop"
                   /\ \E pidx \in ChoiceNoReplace(Len(vp), num_agents),
                         tidx \in ChoiceNoReplace(Len(vp), num_agents) :
                        /\ agents_position_idx' = pidx
                        /\ agents_target_idx' = tidx
                        /\ agents_position' = [i \in 1..num_agents |-> vp[pidx[i]]]
                        /\ agents_target' = [i \in 1..num_agents |-> vp[tidx[i]]]
                   /\ update_agents' = Zeros(num_agents)
                   /\ re_generate' = TRUE
                   /\ UNCHANGED warned
    /\ UNCHANGED <<sgen, rail, num_agents, hints, speed_ratio_map, file_agents,
                   agents_direction, agents_speed, cnt, agent_idx, tries, draw, sraised>>
    /\ global_random_used' =
          (global_random_used \/ (Len(ValidPositions(rail)) > 0
                                  /\ Len(ValidPositions(rail)) >= num_agents))
    /\ UNCHANGED mvars
    /\ UNCHANGED ovars

\* Lines 155-198: one iteration of the while loop: re-sample the marked agent, then
\* run the feasibility pass up to the first agent without a valid starting direction.
random_iterate ==
    /\ sgen = "random"
    /\ spc = "loop"
    /\ re_generate /\ cnt < MaxIterations
    /\ cnt' = cnt + 1
    /\ \E rs \in Resample(1, Len(valid_positions), update_agents,
                          agents_position_idx, agents_target_idx) :
        LET pos == [i \in 1..num_agents |-> valid_positions[rs.pidx[i]]]
            tgt == [i \in 1..num_agents |-> valid_positions[rs.tidx[i]]]
        IN  /\ agents_position_idx' = rs.pidx
            /\ agents_target_idx' = rs.tidx
            /\ agents_position' = pos
            /\ agents_target' = tgt
            /\ IF rs.raised # ""
               THEN /\ spc' = "raised"
                    /\ sraised' = rs.raised
                    /\ global_random_used' = TRUE
                    /\ UNCHANGED <<update_agents, re_generate, agents_direction>>
               ELSE /\ spc' = "loop"
                    /\ sraised' = sraised
                    /\ \E fp \in FeasibilityPass(rail, pos, tgt, 1, <<>>) :
                        /\ update_agents' =
                                [i \in 1..num_agents |-> IF i = fp.k THEN 1 ELSE 0]
                        /\ re_generate' = (fp.k <= num_agents)
                        /\ agents_direction' = fp.dirs
                        /\ global_random_used' =
                              (global_random_used \/ 1 \in Range(update_agents) \/ fp.k > 1)
    /\ UNCHANGED <<sgen, rail, num_agents, hints, speed_ratio_map, file_agents,
                   agents_speed, valid_positions, agent_idx, tries, draw, warned>>
    /\ UNCHANGED mvars
    /\ UNCHANGED ovars

\* Lines 200-204: the loop is over; draw the speeds and return.
random_return ==
    /\ sgen = "random"
    /\ spc = "loop"
    /\ ~(re_generate /\ cnt < MaxIterations)
    /\ agents_speed' \in speed_initialization_helper(num_agents, speed_ratio_map)
    /\ spc' = "returned"
    /\ UNCHANGED <<sgen, rail, num_agents, hints, speed_ratio_map, file_agents,
                   agents_position, agents_target, agents_direction, valid_positions,
                   agents_position_idx, agents_target_idx, update_agents, re_generate,
                   cnt, agent_idx, tries, draw, warned, sraised>>
    /\ global_random_used' = (global_random_used \/ speed_ratio_map # NoMap)
    /\ UNCHANGED mvars
    /\ UNCHANGED ovars

NextRandom ==
    \/ random_sample
    \/ random_iterate
    \/ random_return

InitRandomCall == MalfunctionIdle /\ OthersIdle /\ InitRandom

SpecRandom == InitRandomCall /\ [][NextRandom]_vars

(***************************************************************************)
(* complex_schedule_generator                                              *)
(***************************************************************************)
\* The (start, target) pairs and start directions a topology generator may hand over.
HintStartGoal ==
    <<  <<<<0, 0>>, <<0, 2>>>>, <<<<0, 2>>, <<0, 0>>>>,
        <<<<0, 1>>, <<0, 2>>>>, <<<<0, 1>>, <<0, 0>>>>, <<<<0, 2>>, <<0, 1>>>>  >>
HintStartDir == <<WEST, EAST, EAST, WEST, EAST>>

\* seq[:n]
Truncate(seq, n) == SubSeq(seq, 1, IF n < Len(seq) THEN n ELSE Len(seq))

InitComplex ==
    /\ sgen = "complex"
    /\ spc = "call"
    /\ rail = RailLine
    /\ num_agents \in 0..MaxAgents
    /\ \E l1 \in 0..(MaxAgents + 1), l2 \in 0..(MaxAgents + 1) :
        hints = [NoHints EXCEPT !.start_goal = Truncate(HintStartGoal, l1),
                                !.start_dir = Truncate(HintStartDir, l2)]
    /\ speed_ratio_map \in SpeedMaps
    /\ file_agents = <<>>
    /\ ScheduleLocalsUnset

\* complex_schedule_generator.generator, lines 42-54
complex_generator ==
    /\ sgen = "complex"
    /\ spc = "call"
    /\ LET sg == Truncate(hints.start_goal, num_agents)
       IN  /\ agents_position' = [i \in 1..Len(sg) |-> sg[i][1]]
           /\ agents_target' = [i \in 1..Len(sg) |-> sg[i][2]]
           /\ agents_direction' = Truncate(hints.start_dir, num_agents)
           /\ IF speed_ratio_map # NoMap
              THEN agents_speed' \in speed_initialization_helper(num_agents, speed_ratio_map)
              ELSE agents_speed' = [i \in 1..Len(sg) |-> FullSpeed]
    /\ spc' = "returned"
    /\ UNCHANGED <<sgen, rail, num_agents, hints, speed_ratio_map, file_agents,
                   valid_positions, agents_position_idx, agents_target_idx, update_agents,
                   re_generate, cnt, agent_idx, tries, draw, warned, sraised>>
    /\ global_random_used' = (global_random_used \/ speed_ratio_map # NoMap)
    /\ UNCHANGED mvars
    /\ UNCHANGED ovars

(***************************************************************************)
(* schedule_from_file                                                      *)
(***************************************************************************)
\* The (position, direction, target) triples a saved scenario may hold.
SavedAgents ==
    <<  <<<<0, 0>>, WEST, <<0, 2>>>>, <<<<0, 2>>, EAST, <<0, 0>>>>,
        <<<<0, 1>>, EAST, <<0, 2>>>>, <<<<0, 1>>, WEST, <<0, 0>>>>  >>

InitFile ==
    /\ sgen = "file"
    /\ spc = "call"
    /\ rail = RailLine
    /\ num_agents \in 0..MaxAgents
    /\ hints = NoHints
    /\ speed_ratio_map = NoMap
    /\ \E l \in 0..MaxAgents : file_agents = Truncate(SavedAgents, l)
    /\ ScheduleLocalsUnset

\* schedule_from_file.generator, lines 223-235
file_generator ==
    /\ sgen = "file"
    /\ spc = "call"
    /\ agents_position' = [i \in DOMAIN file_agents |-> file_agents[i][1]]
    /\ agents_direction' = [i \in DOMAIN file_agents |-> file_agents[i][2]]
    /\ agents_target' = [i \in DOMAIN file_agents |-> file_agents[i][3]]
    /\ agents_speed' = [i \in DOMAIN file_agents |-> FullSpeed]
    /\ spc' = "returned"
    /\ UNCHANGED <<sgen, rail, num_agents, hints, speed_ratio_map, file_agents,
                   valid_positions, agents_position_idx, agents_target_idx, update_agents,
                   re_generate, cnt, agent_idx, tries, draw, warned, sraised>>
    /\ UNCHANGED global_random_used
    /\ UNCHANGED mvars
    /\ UNCHANGED ovars

(***************************************************************************)
(* sparse_schedule_generator                                               *)
(***************************************************************************)
MaxTries == 100

WarnTarget == "Could not set target position, removing an agent"
WarnStart == "Could not set start position, please change initial parameters!!!!"

\* train_stations: the station cells of node 1 (west) and of node 2 (east) of RailLine
StationChoices ==
    {<< <<(<<0, 0>>)>>, <<(<<0, 2>>)>> >>,
     << <<(<<0, 0>>), (<<0, 1>>)>>, <<(<<0, 2>>)>> >>,
     << <<(<<0, 0>>), (<<0, 1>>)>>, <<(<<0, 1>>), (<<0, 2>>)>> >>}

\* agent_start_targets_nodes: everyone from node 1 to node 2, or alternating
NodePairChoices(n) ==
    {[i \in 1..n |-> <<1, 2>>], [i \in 1..n |-> IF i % 2 = 1 THEN <<1, 2>> ELSE <<2, 1>>]}

InitSparse ==
    /\ sgen = "sparse"
    /\ spc = "call"
    /\ rail = RailLine
    /\ num_agents \in 0..MaxAgents
    /\ \E hn \in {num_agents, num_agents + 1} \cap (0..MaxAgents) :
        \E st \in StationChoices, np \in NodePairChoices(hn) :
            hints = [NoHints EXCEPT !.train_stations = st,
                                    !.agent_start_targets_nodes = np,
                                    !.num_agents = hn]
    /\ speed_ratio_map \in SpeedMaps
    /\ file_agents = <<>>
    /\ ScheduleLocalsUnset

\* train_stations[node][np.random.randint(len(train_stations[node]))]
StationDraws(node) == Range(hints.train_stations[node])

\* Lines 99-103: the orientations appended to agents_direction for one agent: every
\* orientation in 0..3 with some transition (the loop goes on after a hit).
Orientations(map, start) ==
    SelectSeq(<<0, 1, 2, 3>>,
              LAMBDA o : \E out \in Directions : get_transitions(map, start, o)[out] = 1)

\* Lines 61-67 and the head of the for loop (lines 70-73): the lists are emptied and
\* the next agent's target is drawn; the local num_agents is hints['num_agents'].
sparse_draw_target ==
    /\ sgen = "sparse"
    /\ spc \in {"call", "sparse_agent"}
    /\ agent_idx < hints.num_agents
    /\ draw' \in StationDraws(hints.agent_start_targets_nodes[agent_idx + 1][2])
    /\ tries' = 0
    /\ spc' = "sparse_target"
    /\ UNCHANGED <<sgen, rail, num_agents, hints, speed_ratio_map, file_agents,
                   agents_position, agents_target, agents_direction, agents_speed,
                   valid_positions, agents_position_idx, agents_target_idx, update_agents,
                   re_generate, cnt, agent_idx, warned, sraised>>
    /\ global_random_used' = TRUE
    /\ UNCHANGED mvars
    /\ UNCHANGED ovars

\* Lines 74-80: one iteration of the target loop: redraw, count, and give up with a
\* warning once tries exceeds 100.
sparse_target_retry ==
    /\ sgen = "sparse"
    /\ spc = "sparse_target"
    /\ draw \in Range(agents_target)
    /\ draw' \in StationDraws(hints.agent_start_targets_nodes[agent_idx + 1][2])
    /\ tries' = tries + 1
    /\ IF tries + 1 > MaxTries
       THEN /\ warned' = warned \cup {WarnTarget}
            /\ spc' = "sparse_target_break"
       ELSE /\ UNCHANGED warned
            /\ spc' = "sparse_target"
    /\ UNCHANGED <<sgen, rail, num_agents, hints, speed_ratio_map, file_agents,
                   agents_position, agents_target, agents_direction, agents_speed,
                   valid_positions, agents_position_idx, agents_target_idx, update_agents,
                   re_generate, cnt, agent_idx, sraised>>
    /\ global_random_used' = TRUE
    /\ UNCHANGED mvars
    /\ UNCHANGED ovars

\* Lines 81-87: the target loop is over (no collision, or break): the target is
\* appended and the start is drawn.
sparse_set_target ==
    /\ sgen = "sparse"
    /\ \/ spc = "sparse_target" /\ draw \notin Range(agents_target)
       \/ spc = "sparse_target_break"
    /\ agents_target' = Append(agents_target, draw)
    /\ draw' \in StationDraws(hints.agent_start_targets_nodes[agent_idx + 1][1])
    /\ tries' = 0
    /\ spc' = "sparse_start"
    /\ UNCHANGED <<sgen, rail, num_agents, hints, speed_ratio_map, file_agents,
                   agents_position, agents_direction, agents_speed,
                   valid_positions, agents_position_idx, agents_target_idx, update_agents,
                   re_generate, cnt, agent_idx, warned, sraised>>
    /\ global_random_used' = TRUE
    /\ UNCHANGED mvars
    /\ UNCHANGED ovars

\* Lines 88-94: one iteration of the start loop: count, give up with a warning once
\* tries exceeds 100, else redraw.
sparse_start_retry ==
    /\ sgen = "sparse"
    /\ spc = "sparse_start"
    /\ draw \in Range(agents_position)
    /\ tries' = tries + 1
    /\ IF tries + 1 > MaxTries
       THEN /\ warned' = warned \cup {WarnStart}
            /\ spc' = "sparse_start_break"
            /\ UNCHANGED draw
       ELSE /\ UNCHANGED warned
            /\ spc' = "sparse_start"
            /\ draw' \in StationDraws(hints.agent_start_targets_nodes[agent_idx + 1][1])
    /\ UNCHANGED <<sgen, rail, num_agents, hints, speed_ratio_map, file_agents,
                   agents_position, agents_target, agents_direction, agents_speed,
                   valid_positions, agents_position_idx, agents_target_idx, update_agents,
                   re_generate, cnt, agent_idx, sraised>>
    /\ global_random_used' = (global_random_used \/ tries + 1 <= MaxTries)
    /\ UNCHANGED mvars
    /\ UNCHANGED ovars

\* Lines 96-103: the start loop is over: the start is appended and the agent oriented.
sparse_set_start ==
    /\ sgen = "sparse"
    /\ \/ spc = "sparse_start" /\ draw \notin Range(agents_position)
       \/ spc = "sparse_start_break"
    /\ agents_position' = Append(agents_position, draw)
    /\ agents_direction' = agents_direction \o Orientations(rail, draw)
    /\ agent_idx' = agent_idx + 1
    /\ spc' = "sparse_agent"
    /\ UNCHANGED <<sgen, rail, num_agents, hints, speed_ratio_map, file_agents,
                   agents_target, agents_speed,
                   valid_positions, agents_position_idx, agents_target_idx, update_agents,
                   re_generate, cnt, tries, draw, warned, sraised>>
    /\ UNCHANGED global_random_used
    /\ UNCHANGED mvars
    /\ UNCHANGED ovars

\* Lines 105-110: all agents are placed: the speeds are set and the lists returned.
sparse_return ==
    /\ sgen = "sparse"
    /\ spc \in {"call", "sparse_agent"}
    /\ agent_idx >= hints.num_agents
    /\ IF speed_ratio_map # NoMap
       THEN agents_speed' \in speed_initialization_helper(hints.num_agents, speed_ratio_map)
       ELSE agents_speed' = [i \in 1..Len(agents_position) |-> FullSpeed]
    /\ spc' = "returned"
    /\ UNCHANGED <<sgen, rail, num_agents, hints, speed_ratio_map, file_agents,
                   agents_position, agents_target, agents_direction,
                   valid_positions, agents_position_idx, agents_target_idx, update_agents,
                   re_generate, cnt, agent_idx, tries, draw, warned, sraised>>
    /\ global_random_used' = (global_random_used \/ speed_ratio_map # NoMap)
    /\ UNCHANGED mvars
    /\ UNCHANGED ovars

(***************************************************************************)
(* All schedule generators.                                                *)
(***************************************************************************)
InitSchedule ==
    MalfunctionIdle /\ OthersIdle /\ (InitComplex \/ InitSparse \/ InitRandom \/ InitFile)

NextSchedule ==
    \/ complex_generator
    \/ sparse_draw_target
    \/ sparse_target_retry
    \/ sparse_set_target
    \/ sparse_start_retry
    \/ sparse_set_start
    \/ sparse_return
    \/ random_sample
    \/ random_iterate
    \/ random_return
    \/ file_generator

SpecSchedule == InitSchedule /\ [][NextSchedule]_vars

(***************************************************************************)
(* Claims about random_schedule_generator.                                 *)
(***************************************************************************)
RandomCalled == sgen = "random" /\ spc # "call"

AllEmpty ==
    /\ agents_position = <<>>
    /\ agents_direction = <<>>
    /\ agents_target = <<>>
    /\ agents_speed = <<>>

PairwiseDistinct(f) == \A i, j \in DOMAIN f : i # j => f[i] # f[j]

HasOutgoingTransition(map, pos, dir) ==
    \E out \in Directions : get_transitions(map, pos, dir)[out] = 1

\* C7: when the requested agent count exceeds the number of cells with a nonzero
\* mask (a rail without any such cell included), the generator returns four empty
\* sequences and emits a warning; it never returns a partial placement.
C7_TooFewCellsWarnsAndReturnsEmpty ==
    (sgen = "random" /\ spc = "returned") =>
        /\ (num_agents > Len(valid_positions) =>
                (AllEmpty /\ WarnTooFewPositions \in warned))
        /\ Len(agents_position) \in {0, num_agents}

\* C8: when the feasibility loop ends with no agent marked infeasible, every returned
\* agent's start direction has a legal outgoing transition from its start cell.
C8_DirectionHasTransition ==
    (sgen = "random" /\ spc = "returned" /\ Len(valid_positions) >= num_agents
        /\ Len(valid_positions) > 0 /\ ~re_generate) =>
        \A i \in 1..num_agents :
            HasOutgoingTransition(rail, agents_position[i], agents_direction[i])

\* C8 witness: a schedule of two or more agents returned after a successful retry.
C8_Witness ==
    /\ sgen = "random"
    /\ spc = "returned"
    /\ num_agents >= 2
    /\ Len(agents_direction) = num_agents
    /\ ~re_generate
    /\ cnt >= 2

\* C9: on a rail with at least num_agents valid cells the loop runs at most 100
\* iterations and the generator does not raise, also when num_agents equals the
\* number of valid cells and an infeasible agent has to be re-sampled.
C9_BoundedRetriesNeverRaise ==
    (RandomCalled /\ Len(valid_positions) >= num_agents) =>
        /\ cnt <= MaxIterations
        /\ spc # "raised"
        /\ sraised = ""

\* C10 (state part): the start positions are pairwise distinct and the targets are
\* pairwise distinct, at the initial sampling and after every re-sampling.
C10_Distinct ==
    RandomCalled => (PairwiseDistinct(agents_position) /\ PairwiseDistinct(agents_target))

\* C10 (step part): a re-sampled agent receives a position and a target different
\* from every position, respectively target, assigned before the step.
C10_ResampledFresh ==
    (sgen = "random" /\ spc = "loop" /\ spc' = "loop") =>
        \A i \in 1..num_agents :
            update_agents[i] = 1 =>
                /\ agents_position'[i] \notin Range(agents_position)
                /\ agents_target'[i] \notin Range(agents_target)

\* C10: positions pairwise distinct and targets pairwise distinct in every state of
\* the call, and every re-sampling step hands out a fresh position and a fresh target.
C10_DistinctAndFresh == [](C10_Distinct) /\ [][C10_ResampledFresh]_vars

\* C10 witness: after a re-sampling step, with one agent starting on another's target.
C10_Witness ==
    /\ sgen = "random"
    /\ spc = "loop"
    /\ cnt >= 2
    /\ num_agents >= 2
    /\ \E i, j \in 1..num_agents : i # j /\ agents_position[i] = agents_target[j]

(***************************************************************************)
(* Claims about all schedule generators.                                   *)
(***************************************************************************)
\* The input lets the generator place the requested number of agents.
PlacementSucceeds ==
    IF sgen = "complex"
    THEN Len(hints.start_goal) >= num_agents /\ Len(hints.start_dir) >= num_agents
    ELSE IF sgen = "sparse" THEN hints.num_agents = num_agents
    ELSE IF sgen = "random"
    THEN Len(valid_positions) > 0 /\ Len(valid_positions) >= num_agents
    ELSE Len(file_agents) = num_agents

\* C1: for every schedule generator and every input on which placement succeeds, the
\* returned positions, directions, targets and speeds have the same length, and that
\* length is the requested agent count.
C1_EqualLengths ==
    (spc = "returned" /\ PlacementSucceeds) =>
        /\ Len(agents_position) = num_agents
        /\ Len(agents_direction) = num_agents
        /\ Len(agents_target) = num_agents
        /\ Len(agents_speed) = num_agents


(***************************************************************************)
(* Claims about sparse_schedule_generator.                                 *)
(***************************************************************************)
\* Some orientation of the cell has a transition.
HasOrientation(map, pos) == \E d \in Directions : HasOutgoingTransition(map, pos, d)

\* The smallest orientation of the cell that has a transition.
SmallestOrientation(map, pos) ==
    CHOOSE d \in Directions :
        /\ HasOutgoingTransition(map, pos, d)
        /\ \A e \in Directions : HasOutgoingTransition(map, pos, e) => d <= e

\* C11: once sparse_schedule_generator has placed agents on cells with a transition,
\* every placed agent has exactly one direction: agents_direction is as long as
\* agents_position and its entry for an agent is the smallest orientation in 0..3
\* for which the agent's start cell has an outgoing transition.
C11_OneSmallestDirection ==
    (/\ sgen = "sparse"
     /\ spc \in {"sparse_agent", "returned"}
     /\ \A i \in DOMAIN agents_position : HasOrientation(rail, agents_position[i])) =>
        /\ Len(agents_direction) = Len(agents_position)
        /\ \A i \in DOMAIN agents_position :
              agents_direction[i] = SmallestOrientation(rail, agents_position[i])


\* The number of times the current loop of sparse_schedule_generator has re-drawn
\* its cell: the target loop draws before it counts, the start loop counts, checks
\* and then draws, so its break comes one count after its last draw.
Redraws == IF spc = "sparse_start_break" THEN tries - 1 ELSE tries

\* C12: in sparse_schedule_generator the target and the start of an agent are each
\* re-drawn at most 100 times; an agent shares its target (start) with an earlier
\* agent only after the warning of the exhausted loop was emitted, and it is placed
\* all the same.
C12_AtMostHundredRedraws ==
    sgen = "sparse" =>
        /\ spc \in {"sparse_target", "sparse_target_break",
                    "sparse_start", "sparse_start_break"} => Redraws <= MaxTries
        /\ spc \in {"sparse_start", "sparse_start_break"} =>
              /\ Len(agents_target) = agent_idx + 1
              /\ ~PairwiseDistinct(agents_target) => WarnTarget \in warned
        /\ spc = "sparse_agent" =>
              /\ Len(agents_position) = agent_idx
              /\ ~PairwiseDistinct(agents_position) => WarnStart \in warned


(***************************************************************************)
(* Claims about the random sources.                                        *)
(***************************************************************************)
\* C13: no generator and no helper reads or advances the process-global random
\* state: every draw comes from the random source the caller supplied, so no call
\* of a module-level np.random function ever happens.
C13_NoGlobalRandomState == ~global_random_used


(***************************************************************************)
(* Claims about the state of the malfunction generators.                   *)
(***************************************************************************)
\* A generator has been built and returned.
Built == mgen \in {"params", "file", "none"}

\* The triple the generator was configured with.
Configured ==
    IF mgen = "file" THEN snapshot.malfunction
    ELSE IF mgen = "none" THEN <<0, 0, 0>>
    ELSE <<mean_malfunction_rate, min_number_of_steps_broken, max_number_of_steps_broken>>

\* A step that is a call of a generator (the record of the last call changes) leaves
\* the agent's counter and the generator's parameters as they were.
C17_CallFrame ==
    mcall' # mcall =>
        /\ malfunction' = malfunction
        /\ mean_malfunction_rate' = mean_malfunction_rate
        /\ min_number_of_steps_broken' = min_number_of_steps_broken
        /\ max_number_of_steps_broken' = max_number_of_steps_broken

\* C17: a call of a malfunction generator (from params, from file or none) changes
\* neither the agent's malfunction counter nor the generator's parameters; the
\* MalfunctionProcessData returned with the generator is the configured
\* (rate, min_duration, max_duration) and no later step changes it.
C17_StatelessGenerator ==
    /\ [][C17_CallFrame]_vars
    /\ [](Built => process_data = Configured)
    /\ [][Built => process_data' = process_data]_vars

\* A from-params generator has just returned a malfunction: the counter is still the
\* one the call read, and the process data are the configured triple.
C17_Witness ==
    /\ mgen = "params"
    /\ mcall.kind = "params"
    /\ mcall.num_broken_steps > 0
    /\ malfunction = mcall.malfunction
    /\ mean_malfunction_rate > 0
    /\ process_data = <<mean_malfunction_rate, min_number_of_steps_broken,
                        max_number_of_steps_broken>>


(***************************************************************************)
(* Claims about the retry loop of random_schedule_generator.               *)
(***************************************************************************)
\* The agents marked for re-sampling by the last feasibility pass.
Marked == {i \in DOMAIN update_agents : update_agents[i] = 1}

\* The agent has no valid starting direction.
Infeasible(i) == ValidStartingDirections(rail, agents_position[i], agents_target[i]) = {}

\* C20 (state part): after a feasibility pass at most one agent is marked; it is the
\* lowest-indexed infeasible agent, and it and the agents after it were not given a
\* direction in that pass.
C20_LowestInfeasibleMarked ==
    (sgen = "random" /\ spc = "loop" /\ cnt >= 1) =>
        /\ Cardinality(Marked) <= 1
        /\ \A k \in Marked :
              /\ Infeasible(k)
              /\ \A j \in 1..(k - 1) : ~Infeasible(j)
              /\ \A j \in k..num_agents : agents_direction[j] = 0
        /\ Marked = {} => \A j \in 1..num_agents : ~Infeasible(j)

\* C20 (step part): an iteration changes the position and the target of no agent
\* but the marked one.
C20_OthersUnchanged ==
    (sgen = "random" /\ spc = "loop") =>
        \A i \in 1..num_agents :
            i \notin Marked =>
                /\ agents_position'[i] = agents_position[i]
                /\ agents_target'[i] = agents_target[i]

\* C20: one iteration of the retry loop re-samples at most one agent, the
\* lowest-indexed agent the previous feasibility pass found infeasible; every other
\* agent keeps its position and its target, and the agents after the infeasible one
\* are not examined in that pass.
C20_OneResamplePerIteration ==
    [](C20_LowestInfeasibleMarked) /\ [][C20_OthersUnchanged]_vars

\* C20 witness: after a re-sampling iteration one agent is marked while a later agent,
\* which the pass did not reach, is infeasible as well and is not marked.
C20_Witness ==
    /\ sgen = "random"
    /\ spc = "loop"
    /\ cnt >= 2
    /\ \E k \in Marked : \E j \in (k + 1)..num_agents : Infeasible(j) /\ j \notin Marked


Masks == 0..(Pow2(16) - 1)

\* The transitions 4 * dirIn + dirOut = 0 .. n of the mask whose low bits are m (bit
\* 15 - n lowest), each with both directions advanced by k quarter turns modulo 4.
RECURSIVE RotateBits(_, _, _)
RotateBits(m, k, n) ==
    IF m = 0 THEN 0
    ELSE (IF m % 2 = 1 THEN Trans(((n \div 4) + k) % 4, ((n % 4) + k) % 4) ELSE 0)
         + RotateBits(m \div 2, k, n - 1)

\* A slip that shifts the directions without wrapping around: a transition whose
\* direction would pass WEST is lost.
RECURSIVE ShiftBits(_, _, _)
ShiftBits(m, k, n) ==
    IF m = 0 THEN 0
    ELSE (IF m % 2 = 1 /\ (n \div 4) + k <= 3 /\ (n % 4) + k <= 3
          THEN Trans((n \div 4) + k, (n % 4) + k) ELSE 0)
         + ShiftBits(m \div 2, k, n - 1)

rotate_transitionNoWrap(m, degrees) == ShiftBits(m, degrees \div 90, 15)

\* transitions.rotate_transition(binTrans, nRot): every (dirIn, dirOut) pair of the
\* mask rotated by nRot / 90 steps modulo 4
rotate_transition(m, degrees) == RotateBits(m, degrees \div 90, 15)

\* The rotations loadPNGs asks for.
Rotations == {90, 180, 270}

\* The rotations of one mask add up to at most one full turn.
FullTurn == 360

\* A mask is about to be rotated.
InitRotation ==
    /\ MalfunctionIdle
    /\ ScheduleIdle
    /\ PathIdle
    /\ MapIdle
    /\ GraphicsIdle
    /\ AgentIdle
    /\ rot_mask \in Masks
    /\ rot_value = rot_mask
    /\ rot_total = 0

\* rot_value = transitions.rotate_transition(rot_value, nRot)
rotate ==
    /\ \E nRot \in Rotations :
        /\ rot_total + nRot <= FullTurn
        /\ rot_value' = rotate_transition(rot_value, nRot)
        /\ rot_total' = rot_total + nRot
    /\ UNCHANGED rot_mask
    /\ UNCHANGED rframe

NextRotation == rotate

SpecRotation == InitRotation /\ [][NextRotation]_vars

\* C15: rotations that add up to a full turn give the mask back: a rotation by 90
\* followed by one by 270, and four rotations by 90 in a row (and every other way
\* of reaching 360 degrees), return every 16-bit mask m unchanged.
C15_FullTurnIsIdentity == rot_total = 360 => rot_value = rot_mask

\* C15 witness: a curve, which a quarter turn changes, is back after the full turn.
C15_Witness ==
    /\ rot_mask = Curve
    /\ rotate_transition(rot_mask, 90) # rot_mask
    /\ rotate_transition(rot_mask, 180) # rot_mask
    /\ rot_total = 360
    /\ rot_value = rot_mask


(***************************************************************************)
(* GridTransitionMap.check_path_exists as a query of its own.              *)
(***************************************************************************)
\* The longest path the reference definition follows: one step per (cell, direction)
\* node of the largest rail.
MaxPathLen == 16

\* A query check_path_exists(start, direction, target) is about to run.
InitPath ==
    /\ MalfunctionIdle
    /\ ScheduleIdle
    /\ RotationIdle
    /\ MapIdle
    /\ GraphicsIdle
    /\ AgentIdle
    /\ path_pc = "call"
    /\ path_rail \in Rails
    /\ path_start \in Cells(path_rail.height, path_rail.width)
    /\ path_direction \in Directions
    /\ path_target \in Cells(path_rail.height, path_rail.width)
    /\ path_result = FALSE

\* path_result = rail.check_path_exists(start, direction, target)
path_query ==
    /\ path_pc = "call"
    /\ path_result' = check_path_exists(path_rail, path_start, path_direction, path_target)
    /\ path_pc' = "returned"
    /\ UNCHANGED <<path_rail, path_start, path_direction, path_target>>
    /\ UNCHANGED pframe

NextPath == path_query

SpecPath == InitPath /\ [][NextPath]_vars

\* The nodes some sequence of at most n legal transitions leads to from the nodes of S.
RECURSIVE Within(_, _, _)
Within(map, S, n) ==
    IF n = 0 THEN S
    ELSE Within(map, S \cup UNION {Successors(map, nd) : nd \in S}, n - 1)

\* Some sequence of at most MaxPathLen legal transitions (the empty one included)
\* leads from (start, direction) to the target in some orientation.
PathExists ==
    \E nd \in Within(path_rail, {<<path_start, path_direction>>}, MaxPathLen) :
        nd[1] = path_target

WordBits == 16

\* The number of words of a cell mask of n directions.
Words(n) == (n * n) \div WordBits

\* The word holding the bit of transition dirIn -> dirOut, and the bit's weight in it.
WordOf(n, dirIn, dirOut) == ((n * dirIn + dirOut) \div WordBits) + 1
WeightOf(n, dirIn, dirOut) == Pow2((WordBits - 1) - ((n * dirIn + dirOut) % WordBits))

\* The bit of transition dirIn -> dirOut in a cell mask.
CellBit(n, cell_transition, dirIn, dirOut) ==
    (cell_transition[WordOf(n, dirIn, dirOut)] \div WeightOf(n, dirIn, dirOut)) % 2

\* transitions.get_transitions(cell_transition, orientation): the n bits of the
\* entry direction, indexed by the exit direction
cell_get_transitions(n, cell_transition, orientation) ==
    [direction \in 0..(n - 1) |-> CellBit(n, cell_transition, orientation, direction)]

\* A slip that sets the bit but never clears it.
cell_set_transitionNeverClears(n, cell_transition, orientation, direction, new_transition) ==
    LET w == WordOf(n, orientation, direction)
    IN  IF CellBit(n, cell_transition, orientation, direction) = 1 THEN cell_transition
        ELSE [cell_transition EXCEPT ![w] = @ + WeightOf(n, orientation, direction)]

\* transitions.set_transition(cell_transition, orientation, direction, new_transition):
\* the single bit is set (or-ed in) when new_transition is 1 and cleared when it is 0
cell_set_transition(n, cell_transition, orientation, direction, new_transition) ==
    LET w == WordOf(n, orientation, direction)
        isSet == CellBit(n, cell_transition, orientation, direction) = 1
    IN  IF new_transition = 1
        THEN IF isSet THEN cell_transition
             ELSE [cell_transition EXCEPT ![w] = @ + WeightOf(n, orientation, direction)]
        ELSE IF isSet
             THEN [cell_transition EXCEPT ![w] = @ - WeightOf(n, orientation, direction)]
             ELSE cell_transition

\* grid.get_transitions((row, col, dirIn))
map_get_transitions(n, grid, pos, dirIn) == cell_get_transitions(n, grid[pos], dirIn)

\* grid.set_transition((row, col, dirIn), dirOut, value)
map_set_transition(n, grid, pos, dirIn, dirOut, value) ==
    [grid EXCEPT ![pos] = cell_set_transition(n, grid[pos], dirIn, dirOut, value)]

\* GridTransitionMap(2, 2, Grid4Transitions([])) or GridTransitionMap(2, 2,
\* Grid8Transitions([])): every cell mask is 0; the test's cell and directions are chosen.
InitMap ==
    /\ MalfunctionIdle
    /\ ScheduleIdle
    /\ RotationIdle
    /\ PathIdle
    /\ GraphicsIdle
    /\ AgentIdle
    /\ tm_pc = "fresh"
    /\ tm_dirs \in {4, 8}
    /\ tm_grid = [pos \in Cells(2, 2) |-> [w \in 1..Words(tm_dirs) |-> 0]]
    /\ tm_pos \in Cells(2, 2)
    /\ tm_dirIn \in 0..(tm_dirs - 1)
    /\ tm_dirOut \in 0..(tm_dirs - 1)

\* set_transition((row, col, dirIn), dirOut, 1)
test_set ==
    /\ tm_pc = "fresh"
    /\ tm_grid' = map_set_transition(tm_dirs, tm_grid, tm_pos, tm_dirIn, tm_dirOut, 1)
    /\ tm_pc' = "set"
    /\ UNCHANGED <<tm_dirs, tm_pos, tm_dirIn, tm_dirOut>>
    /\ UNCHANGED tframe

\* set_transition((row, col, dirIn), dirOut, 0)
test_clear ==
    /\ tm_pc = "set"
    /\ tm_grid' = map_set_transition(tm_dirs, tm_grid, tm_pos, tm_dirIn, tm_dirOut, 0)
    /\ tm_pc' = "cleared"
    /\ UNCHANGED <<tm_dirs, tm_pos, tm_dirIn, tm_dirOut>>
    /\ UNCHANGED tframe

NextMap ==
    \/ test_set
    \/ test_clear

SpecMap == InitMap /\ [][NextMap]_vars

\* The tuple of n entries with a 1 at index dirOut only, and the tuple of n zeros.
UnitTuple(n, dirOut) == [d \in 0..(n - 1) |-> IF d = dirOut THEN 1 ELSE 0]
ZeroTuple(n) == [d \in 0..(n - 1) |-> 0]

\* get_transitions is all zeros for every cell and entry direction.
AllZero ==
    \A pos \in DOMAIN tm_grid : \A d \in 0..(tm_dirs - 1) :
        map_get_transitions(tm_dirs, tm_grid, pos, d) = ZeroTuple(tm_dirs)

\* C14: on a fresh transition map every get_transitions result is all zeros; after
\* set_transition(cell, dirIn, dirOut, 1) the result for (cell, dirIn) has a 1 at
\* index dirOut and 0 elsewhere; after set_transition(cell, dirIn, dirOut, 0) it is
\* all zeros again, for the map of 4 directions and for the map of 8 directions.
C14_SetThenClear ==
    /\ tm_pc = "fresh" => AllZero
    /\ tm_pc = "set" =>
          map_get_transitions(tm_dirs, tm_grid, tm_pos, tm_dirIn)
              = UnitTuple(tm_dirs, tm_dirOut)
    /\ tm_pc = "cleared" => AllZero

\* C14 witness: on the grid8 map a transition between two different directions of
\* the last word of a cell mask has been set and cleared again.
C14_Witness ==
    /\ tm_pc = "cleared"
    /\ tm_dirs = 8
    /\ tm_pos = <<1, 1>>
    /\ tm_dirIn = 7
    /\ tm_dirOut = 5
    /\ map_get_transitions(tm_dirs, tm_grid, tm_pos, tm_dirIn) = ZeroTuple(tm_dirs)


(***************************************************************************)
(* PILSVG.setRailAt (flatland/utils/graphics_pil.py): the image of a rail  *)
(* cell is looked up in dPilRail by the cell's transition mask and pasted  *)
(* on layer 0.                                                             *)
(***************************************************************************)
\* The masks of the keys of dRailFiles, in the order of the dictionary.
RailFileMasks ==
    {0,
     Trans(WEST, EAST),
     Trans(WEST, WEST) + Trans(EAST, EAST) + Trans(NORTH, NORTH) + Trans(SOUTH, SOUTH),
     Trans(WEST, WEST) + Trans(EAST, EAST),
     Trans(EAST, NORTH) + Trans(SOUTH, WEST),
     Trans(WEST, NORTH) + Trans(SOUTH, EAST),
     Trans(EAST, SOUTH) + Trans(NORTH, WEST),
     Trans(NORTH, EAST) + Trans(WEST, SOUTH),
     Trans(NORTH, NORTH) + Trans(SOUTH, SOUTH),
     Trans(NORTH, NORTH) + Trans(SOUTH, SOUTH) + Trans(EAST, EAST) + Trans(WEST, WEST) + Trans(EAST, SOUTH) + Trans(NORTH, WEST) + Trans(SOUTH, EAST) + Trans(WEST, NORTH),
     Trans(EAST, EAST) + Trans(WEST, WEST) + Trans(EAST, NORTH) + Trans(SOUTH, WEST),
     Trans(EAST, EAST) + Trans(WEST, WEST) + Trans(SOUTH, EAST) + Trans(WEST, NORTH),
     Trans(EAST, EAST) + Trans(WEST, WEST) + Trans(EAST, SOUTH) + Trans(NORTH, WEST),
     Trans(EAST, EAST) + Trans(WEST, WEST) + Trans(NORTH, EAST) + Trans(WEST, SOUTH),
     Trans(NORTH, NORTH) + Trans(SOUTH, SOUTH) + Trans(EAST, EAST) + Trans(WEST, WEST) + Trans(NORTH, WEST) + Trans(EAST, SOUTH),
     Trans(NORTH, EAST) + Trans(NORTH, WEST) + Trans(EAST, SOUTH) + Trans(WEST, SOUTH),
     Trans(NORTH, NORTH) + Trans(SOUTH, SOUTH) + Trans(EAST, NORTH) + Trans(SOUTH, WEST),
     Trans(NORTH, NORTH) + Trans(SOUTH, SOUTH) + Trans(SOUTH, EAST) + Trans(WEST, NORTH),
     Trans(NORTH, NORTH) + Trans(SOUTH, SOUTH) + Trans(NORTH, WEST) + Trans(EAST, SOUTH),
     Trans(NORTH, NORTH) + Trans(SOUTH, SOUTH) + Trans(NORTH, EAST) + Trans(WEST, SOUTH),
     Trans(NORTH, EAST) + Trans(NORTH, WEST) + Trans(EAST, SOUTH) + Trans(WEST, SOUTH) + Trans(SOUTH, SOUTH) + Trans(NORTH, NORTH),
     Trans(NORTH, EAST) + Trans(EAST, NORTH) + Trans(SOUTH, WEST) + Trans(WEST, SOUTH)}

\* The masks of the keys of dTargetFiles.
TargetFileMasks ==
    {Trans(EAST, WEST),
     Trans(NORTH, SOUTH),
     Trans(WEST, EAST),
     Trans(SOUTH, NORTH),
     Trans(EAST, EAST) + Trans(WEST, WEST),
     Trans(NORTH, NORTH) + Trans(SOUTH, SOUTH)}

\* len(self.ltAgentColors)
NumAgentColors == 18

\* The keys of self.dPilRail: loadPNGs stores a rail file under its mask and under
\* the mask rotated by 90, 180 and 270 degrees (a 1-tuple here), and a target file
\* under the pair (mask, colour index), once per agent colour.
dPilRail ==
    {<<m>> : m \in RailFileMasks}
    \cup {<<rotate_transition(m, nRot)>> : m \in RailFileMasks, nRot \in Rotations}
    \cup {<<m, iColor>> : m \in TargetFileMasks, iColor \in 0..(NumAgentColors - 1)}

\* iTarget=None
NoTarget == 0 - 1

\* The images a cell of a layer can show.
Blank == [kind |-> "blank", mask |-> 0, target |-> NoTarget]
SelectedTarget == [kind |-> "selected", mask |-> 0, target |-> NoTarget]

\* The cells of the rendered grid, the four layers, and the arguments tried.
GCells == Cells(1, 2)
Layers == 0..3
GMasks == {0, Horizontal, rotate_transition(Curve, 90), Trans(NORTH, EAST), Pow2(16) - 1}
GTargets == {NoTarget, 0}
Grounds == {"scenery", "building"}

\* The calls of setRailAt on one renderer.
MaxCalls == 3

\* A slip that indexes dPilRail without testing for the key first.
setRailAtUnguardedLookup(layers, printed, row, col, binTrans, iTarget, isSelected, ground) ==
    IF <<binTrans>> \in dPilRail
    THEN [layers |-> [layers EXCEPT ![0][<<row, col>>] =
                          [kind |-> "rail", mask |-> binTrans, target |-> iTarget]],
          printed |-> printed, raised |-> ""]
    ELSE [layers |-> layers, printed |-> printed, raised |-> "KeyError"]

\* setRailAt(row, col, binTrans, iTarget, isSelected): lines 460-484 paste the track
\* (for mask 0 a building or a scenery image, `ground`) on layer 0 when the mask is a
\* key of dPilRail and print the mask otherwise; lines 486-490 clear layer 3 and
\* paste the selection marker on it when the cell is a selected target.
setRailAtOutcome(layers, printed, row, col, binTrans, iTarget, isSelected, ground) ==
    LET pilTrack == IF binTrans = 0
                    THEN [kind |-> ground, mask |-> 0, target |-> NoTarget]
                    ELSE [kind |-> "rail", mask |-> binTrans, target |-> iTarget]
        legal == <<binTrans>> \in dPilRail
        layer0 == IF legal THEN [layers[0] EXCEPT ![<<row, col>>] = pilTrack]
                  ELSE layers[0]
        layer3 == IF iTarget # NoTarget /\ isSelected
                  THEN [c \in GCells |-> IF c = <<row, col>> THEN SelectedTarget ELSE Blank]
                  ELSE layers[3]
    IN  [layers |-> [layers EXCEPT ![0] = layer0, ![3] = layer3],
         printed |-> IF legal THEN printed ELSE Append(printed, <<row, col, binTrans>>),
         raised |-> ""]

\* PILSVG(width, height): create_layers has made the four layers, all blank.
InitGraphics ==
    /\ MalfunctionIdle
    /\ ScheduleIdle
    /\ RotationIdle
    /\ PathIdle
    /\ MapIdle
    /\ AgentIdle
    /\ g_layers = [l \in Layers |-> [c \in GCells |-> Blank]]
    /\ g_printed = <<>>
    /\ g_call = [row |-> 0, col |-> 0, binTrans |-> 0, iTarget |-> NoTarget,
                 isSelected |-> FALSE, raised |-> ""]
    /\ g_calls = 0

\* One call self.setRailAt(row, col, binTrans, iTarget, isSelected).
setRailAt ==
    /\ g_calls < MaxCalls
    /\ g_call.raised = ""
    /\ \E c \in GCells, binTrans \in GMasks, iTarget \in GTargets,
          isSelected \in BOOLEAN, ground \in Grounds :
        LET r == setRailAtOutcome(g_layers, g_printed, c[1], c[2], binTrans, iTarget,
                                  isSelected, ground)
        IN  /\ g_layers' = r.layers
            /\ g_printed' = r.printed
            /\ g_call' = [row |-> c[1], col |-> c[2], binTrans |-> binTrans,
                          iTarget |-> iTarget, isSelected |-> isSelected,
                          raised |-> r.raised]
    /\ g_calls' = g_calls + 1
    /\ UNCHANGED gframe

NextGraphics == setRailAt

SpecGraphics == InitGraphics /\ [][NextGraphics]_vars

\* A step that is a call of setRailAt with a mask that is no key of dPilRail returns
\* without an exception, prints the cell and the mask, and leaves layer 0 as it was.
C19_IllegalCall ==
    (g_calls' = g_calls + 1 /\ <<g_call'.binTrans>> \notin dPilRail) =>
        /\ g_call'.raised = ""
        /\ g_printed' = Append(g_printed, <<g_call'.row, g_call'.col, g_call'.binTrans>>)
        /\ g_layers'[0] = g_layers[0]

\* C19: setRailAt called with a transition mask that is not in dPilRail does not
\* raise: it logs the illegal mask, draws nothing on layer 0 and returns normally.
C19_IllegalRailLogged == [][C19_IllegalCall]_vars

\* C19 witness: after a rail was drawn on a cell, a call for the same cell with an
\* illegal mask, as a selected target, has left the rail on layer 0, printed the
\* mask and marked the selection on layer 3.
C19_Witness ==
    /\ g_calls >= 2
    /\ <<g_call.binTrans>> \notin dPilRail
    /\ g_call.raised = ""
    /\ g_call.iTarget # NoTarget
    /\ g_call.isSelected
    /\ g_layers[0][<<g_call.row, g_call.col>>].kind = "rail"
    /\ g_layers[3][<<g_call.row, g_call.col>>] = SelectedTarget
    /\ Len(g_printed) >= 1
    /\ g_printed[Len(g_printed)] = <<g_call.row, g_call.col, g_call.binTrans>>


(***************************************************************************)
(* PILSVG.loadAgentPNGs and PILSVG.setAgentAt: the image of an agent is    *)
(* looked up in dPilZug by (iDirIn, iDirOut, iColor) and pasted on layer 1.*)
(***************************************************************************)
\* The keys of dDirsFile: the direction pairs of the three seed images.
dDirsFile == {<<0, 0>>, <<1, 2>>, <<0, 3>>}

\* The keys loadAgentPNGs stores: every seed pair advanced by iDirRot quarter turns
\* modulo 4, for iDirRot in range(4), once per agent colour.
AgentKeys ==
    {<<(tDirs[1] + iDirRot) % 4, (tDirs[2] + iDirRot) % 4, iColor>> :
        tDirs \in dDirsFile, iDirRot \in 0..3, iColor \in 0..(NumAgentColors - 1)}

\* The largest agent index tried; it exceeds the number of agent colours.
MaxAgentIndex == 19

\* The agent indices tried: the first, and the ones at which the colours have
\* wrapped around.
AgentIndices == {0} \cup (NumAgentColors..MaxAgentIndex)

\* A slip that keeps iDirIn when the agent flips its direction.
AgentKeyNoFlip(iAgent, iDirIn, iDirOut) ==
    <<iDirIn % 4, iDirOut % 4, iAgent % NumAgentColors>>

\* Lines 546-551 of setAgentAt: the key looked up in dPilZug; an agent that turns
\* back (the directions differ by 2 modulo 4) uses iDirOut for both directions.
AgentKey(iAgent, iDirIn, iDirOut) ==
    LET delta_dir == (iDirOut - iDirIn) % 4
        iColor == iAgent % NumAgentColors
        iDirIn2 == IF delta_dir = 2 THEN iDirOut ELSE iDirIn
    IN  <<iDirIn2 % 4, iDirOut % 4, iColor>>

\* The image of an agent and the marker of the selected agent.
Zug(key) == [kind |-> "zug", mask |-> 4 * key[1] + key[2], target |-> key[3]]
SelectedAgent == [kind |-> "selected_agent", mask |-> 0, target |-> NoTarget]

NoAgentCall ==
    [iAgent |-> 0, row |-> 0, col |-> 0, iDirIn |-> 0, iDirOut |-> 0,
     isSelected |-> FALSE, key |-> <<0, 0, 0>>, raised |-> "none"]

\* PILSVG.__init__ has run up to loadAgentPNGs: the layers exist and are blank.
InitAgent ==
    /\ MalfunctionIdle
    /\ ScheduleIdle
    /\ RotationIdle
    /\ PathIdle
    /\ MapIdle
    /\ g_layers = [l \in Layers |-> [c \in GCells |-> Blank]]
    /\ g_printed = <<>>
    /\ g_call = [row |-> 0, col |-> 0, binTrans |-> 0, iTarget |-> NoTarget,
                 isSelected |-> FALSE, raised |-> ""]
    /\ g_calls = 0
    /\ z_pc = "init"
    /\ dPilZug = {}
    /\ z_call = NoAgentCall

\* self.loadAgentPNGs()
loadAgentPNGs ==
    /\ z_pc = "init"
    /\ dPilZug' = AgentKeys
    /\ z_pc' = "ready"
    /\ UNCHANGED <<z_call, gvars>>
    /\ UNCHANGED zframe

\* self.setAgentAt(iAgent, row, col, iDirIn, iDirOut, isSelected): the lookup of a
\* key that is missing raises KeyError before anything is drawn; else the image goes
\* on layer 1 and, for the selected agent, layer 2 is cleared and gets the marker.
setAgentAt ==
    /\ z_pc = "ready"
    /\ \E iAgent \in AgentIndices, c \in GCells, iDirIn \in Directions,
          iDirOut \in Directions, isSelected \in BOOLEAN :
        LET key == AgentKey(iAgent, iDirIn, iDirOut)
            found == key \in dPilZug
            layer1 == [g_layers[1] EXCEPT ![c] = Zug(key)]
            layer2 == IF isSelected
                      THEN [d \in GCells |-> IF d = c THEN SelectedAgent ELSE Blank]
                      ELSE g_layers[2]
        IN  /\ z_call' = [iAgent |-> iAgent, row |-> c[1], col |-> c[2],
                          iDirIn |-> iDirIn, iDirOut |-> iDirOut,
                          isSelected |-> isSelected, key |-> key,
                          raised |-> IF found THEN "" ELSE "KeyError"]
            /\ z_pc' = IF found THEN "ready" ELSE "raised"
            /\ g_layers' = IF found THEN [g_layers EXCEPT ![1] = layer1, ![2] = layer2]
                           ELSE g_layers
    /\ UNCHANGED <<dPilZug, g_printed, g_call, g_calls>>
    /\ UNCHANGED zframe

NextAgent ==
    \/ loadAgentPNGs
    \/ setAgentAt

SpecAgent == InitAgent /\ [][NextAgent]_vars

\* C21: once loadAgentPNGs has run, setAgentAt finds an image for every agent index
\* and every pair of directions iDirIn, iDirOut in 0..3: the key it looks up, with
\* iDirIn replaced by iDirOut when the two differ by 2 modulo 4, is one of the keys
\* stored from the three seed pairs in their four rotations and all agent colours,
\* so no call raises and every call draws the image of its key on layer 1.
C21_AgentImageFound ==
    /\ z_pc # "raised"
    /\ z_pc = "ready" =>
          \A iAgent \in AgentIndices, iDirIn \in Directions, iDirOut \in Directions :
              AgentKey(iAgent, iDirIn, iDirOut) \in dPilZug
    /\ (z_pc = "ready" /\ z_call # NoAgentCall) =>
          /\ z_call.raised = ""
          /\ z_call.key \in AgentKeys
          /\ g_layers[1][<<z_call.row, z_call.col>>] = Zug(z_call.key)

\* C21 witness: an agent whose index is past the number of colours, turning back
\* from SOUTH to NORTH, has been drawn with the image stored for (NORTH, NORTH).
C21_Witness ==
    /\ z_pc = "ready"
    /\ z_call.iAgent = MaxAgentIndex
    /\ z_call.iDirIn = SOUTH
    /\ z_call.iDirOut = NORTH
    /\ z_call.raised = ""
    /\ z_call.key = <<NORTH, NORTH, MaxAgentIndex % NumAgentColors>>
    /\ g_layers[1][<<z_call.row, z_call.col>>] = Zug(z_call.key)

====
